---- MODULE Spec2Model ----
(***************************************************************************)
(* Model of the wave chamber of noise-maker (src/main.rs): a 1-D pressure  *)
(* field of N cells advanced by an explicit finite-difference stencil,     *)
(* driven by the nannou callbacks key_pressed, update and view.           *)
(*                                                                         *)
(* Pressures are f64 in the source.  Here a pressure p is the integer      *)
(* p * Scale, with Scale = 10 * 2^MaxSteps: the key press amount 0.1, the  *)
(* unit impulse 1.0 and every value reached from them by at most MaxSteps  *)
(* steps of the stencil (whose only non-integer coefficient is 0.5) are    *)
(* then whole numbers, so the arithmetic below is exact.  The rounding of  *)
(* f64 additions is not modelled.                                          *)
(***************************************************************************)
EXTENDS Integers, Sequences, FiniteSets, TLC

\* ------------------------------------------------------------- bounds
\* Largest small chamber size explored (besides CELL_COUNT).
MaxN == 5
\* update_pressures calls explored since construction or the last reset.
MaxSteps == 4
\* add_pressure calls explored since construction or the last reset.
MaxInject == 2

\* ---------------------------------------------------------- constants
\* const CELL_COUNT: usize = 128
CELL_COUNT == 128

RECURSIVE Pow2(_)
Pow2(k) == IF k = 0 THEN 1 ELSE 2 * Pow2(k - 1)

\* The integer that stands for the pressure 1.0.
Scale == 10 * Pow2(MaxSteps)

\* 0.1, the amount key A injects (key_pressed).
KeyPressure == Scale \div 10

\* Amounts add_pressure is called with: 0.1 (key A), 1.0 and -1.0.
Pressures == {KeyPressure, Scale, 0 - Scale}

\* The sizes the program's chamber is built with: Chamber<CELL_COUNT>, and
\* small sizes with interior points standing for it.
Sizes == (3..MaxN) \cup {CELL_COUNT}

\* Every size Chamber<N> can be instantiated with, N < 3 included.
AnySizes == (0..MaxN) \cup {CELL_COUNT}

Keys == {"R", "A", "Other"}

VARIABLES
    N,          \* the const generic parameter of Chamber<N>
    cells,      \* chamber.cells: [prev, cur], each an array 0..N-1 -> pressure
    built,      \* model() has run: the chamber exists
    panicked,   \* an operation panicked (the program has aborted)
    viewing,    \* view() is running (it holds &Model)
    frame,      \* the pressures view() has read so far, in index order
    steps,      \* update_pressures calls since construction / reset
    injects,    \* add_pressure calls since construction / reset
    last,       \* history: the last chamber operation and its argument
    old         \* history: cells as they were before the last operation

vars == <<N, cells, built, panicked, viewing, frame, steps, injects, last, old>>

\* ------------------------------------------------------------- arrays
\* [0.0; n]
Zeros(n) == [i \in 0..(n - 1) |-> 0]

\* Cells::new
CellsNew(n) == [prev |-> Zeros(n), cur |-> Zeros(n)]

\* Chamber::new: no check of N.
ChamberNew(n) == CellsNew(n)

\* 0.5 * x
Half(x) == x \div 2

\* ------------------------------------------------- chamber operations
\* Mutant of add_pressure: the amount lands in cell 1 (an off-by-one source).
add_pressure_cell1(c, pressure) ==
    [c EXCEPT !.cur[1] = c.cur[1] + pressure]

\* Mutant of add_pressure: cur[0] = pressure, an assignment for the +=.
add_pressure_assign(c, pressure) ==
    [c EXCEPT !.cur[0] = pressure]

\* Chamber::add_pressure: self.cells.cur[0] += pressure
add_pressure(c, pressure) ==
    [c EXCEPT !.cur[0] = c.cur[0] + pressure]

\* Mutant of LoopBody: an in-place update, whose left neighbour is the value
\* the previous iteration has just written.
LoopBodyInPlace(c, next, index) ==
    LET cur == c.cur[index]
        prev == c.prev[index]
        left == IF index > 1 THEN next[index - 1] ELSE c.cur[index - 1]
        right == c.cur[index + 1]
    IN  [next EXCEPT ![index] = (2 * cur) - prev + Half(right - 2 * cur + left)]

\* One iteration of the loop of update_pressures: the stencil of cell index,
\* read from self.cells (never from next), written to next[index].
LoopBody(c, next, index) ==
    LET cur == c.cur[index]
        prev == c.prev[index]
        left == c.cur[index - 1]
        right == c.cur[index + 1]
    IN  [next EXCEPT ![index] = (2 * cur) - prev + Half(right - 2 * cur + left)]

\* for index in lo..hi { ... } (hi excluded), in ascending order: the
\* iterations of the first half of the range run before those of the second,
\* each on the buffer the one before it left.  (Halving the range, and the
\* test that makes TLC compute first before the second half is entered, keep
\* the evaluation depth logarithmic; an array keeps its length, so the test
\* is always true.)
RECURSIVE Loop(_, _, _, _)
Loop(c, next, lo, hi) ==
    IF lo >= hi THEN next
    ELSE IF hi = lo + 1 THEN LoopBody(c, next, lo)
    ELSE LET mid == (lo + hi) \div 2
             first == Loop(c, next, lo, mid)
         IN  IF DOMAIN first = DOMAIN next
             THEN Loop(c, first, mid, hi)
             ELSE first

\* Mutant of update_pressures: next starts as a copy of cur, so the boundary
\* cells the loop skips keep their values.
update_pressures_copy(c, n) ==
    LET next == Loop(c, c.cur, 1, n - 1)
    IN  [prev |-> c.cur, cur |-> next]

\* Mutant of update_pressures: the rotation in the wrong order, cur = next
\* before prev = cur.
update_pressures_rotate(c, n) ==
    LET next == Loop(c, Zeros(n), 1, n - 1)
    IN  [prev |-> next, cur |-> next]

\* Chamber::update_pressures for n >= 1: a fresh zeroed next, the loop over
\* 1..(N - 1), then prev = cur; cur = next.
update_pressures(c, n) ==
    LET next == Loop(c, Zeros(n), 1, n - 1)
    IN  [prev |-> c.cur, cur |-> next]

\* Mutant of reset: prev is forgotten.
reset_cur_only(c, n) == [cur |-> Zeros(n), prev |-> c.prev]

\* Model::reset: both arrays are replaced by [0.0; CELL_COUNT].
reset(c, n) == [cur |-> Zeros(n), prev |-> Zeros(n)]

\* Mutant of ExclusiveAccess: the chamber is shared with a running view.
SharedAccess == TRUE

\* key_pressed and update take &mut Model, view takes &Model, and nannou calls
\* them one after the other from its event loop: a handler that changes the
\* chamber runs only while no view is reading it.
ExclusiveAccess == ~viewing

\* -------------------------------------------------------------- state
NoOp == [op |-> "none", pressure |-> 0]

Unbuilt == [prev |-> <<>>, cur |-> <<>>]

InitWith(sizes) ==
    /\ N \in sizes
    /\ cells = Unbuilt
    /\ built = FALSE
    /\ panicked = FALSE
    /\ viewing = FALSE
    /\ frame = <<>>
    /\ steps = 0
    /\ injects = 0
    /\ last = NoOp
    /\ old = Unbuilt

\* The program: Chamber<CELL_COUNT>, or a small chamber with interior points.
Init == InitWith(Sizes)

\* The generic type: Chamber<N> for any N.
InitAnySize == InitWith(AnySizes)

Running == built /\ ~panicked

\* model(): let chamber = Chamber::new()
Model ==
    /\ ~built
    /\ built' = TRUE
    /\ cells' = ChamberNew(N)
    /\ last' = [op |-> "new", pressure |-> 0]
    /\ old' = cells
    /\ UNCHANGED <<N, panicked, viewing, frame, steps, injects>>

\* An operation panics: the program aborts with the chamber as it was.
Panic(op) ==
    /\ panicked' = TRUE
    /\ last' = [op |-> op, pressure |-> 0]
    /\ old' = cells
    /\ UNCHANGED <<N, cells, built, viewing, frame, steps, injects>>

\* A call of add_pressure(pressure); cur[0] is out of bounds when N = 0.
CallAddPressure(pressure) ==
    /\ injects < MaxInject
    /\ IF N = 0
       THEN Panic("add_pressure")
       ELSE /\ cells' = add_pressure(cells, pressure)
            /\ injects' = injects + 1
            /\ last' = [op |-> "add_pressure", pressure |-> pressure]
            /\ old' = cells
            /\ UNCHANGED <<N, built, panicked, viewing, frame, steps>>

\* A call of Model::reset.
CallReset ==
    /\ cells' = reset(cells, N)
    /\ steps' = 0
    /\ injects' = 0
    /\ last' = [op |-> "reset", pressure |-> 0]
    /\ old' = cells
    /\ UNCHANGED <<N, built, panicked, viewing, frame>>

\* key_pressed: R resets, A injects 0.1; Space, Up and Down act on the audio
\* stream only and any other key does nothing (Other stands for all of them).
key_pressed(key) ==
    /\ Running
    /\ ExclusiveAccess
    /\ IF key = "R" THEN CallReset
       ELSE IF key = "A" THEN CallAddPressure(KeyPressure)
       ELSE UNCHANGED vars

\* Chamber::add_pressure called with any amount.
AddPressure(pressure) ==
    /\ Running
    /\ ExclusiveAccess
    /\ CallAddPressure(pressure)

\* update: model.chamber.update_pressures(); N - 1 underflows when N = 0.
update ==
    /\ Running
    /\ ExclusiveAccess
    /\ steps < MaxSteps
    /\ IF N = 0
       THEN Panic("update_pressures")
       ELSE /\ cells' = update_pressures(cells, N)
            /\ steps' = steps + 1
            /\ last' = [op |-> "update_pressures", pressure |-> 0]
            /\ old' = cells
            /\ UNCHANGED <<N, built, panicked, viewing, frame, injects>>

\* view: the frame is cleared and the loop over the cells starts.
ViewBegin ==
    /\ Running
    /\ ~viewing
    /\ viewing' = TRUE
    /\ frame' = <<>>
    /\ UNCHANGED <<N, cells, built, panicked, steps, injects, last, old>>

\* view: let pressure = model.chamber.cells.cur[i], one cell drawn.
ViewRead ==
    /\ Running
    /\ viewing
    /\ Len(frame) < N
    /\ frame' = Append(frame, cells.cur[Len(frame)])
    /\ UNCHANGED <<N, cells, built, panicked, viewing, steps, injects, last, old>>

\* view: draw.to_frame, the handler returns.
ViewEnd ==
    /\ Running
    /\ viewing
    /\ Len(frame) = N
    /\ viewing' = FALSE
    /\ frame' = <<>>
    /\ UNCHANGED <<N, cells, built, panicked, steps, injects, last, old>>

Next ==
    \/ Model
    \/ \E key \in Keys : key_pressed(key)
    \/ \E pressure \in Pressures : AddPressure(pressure)
    \/ update
    \/ ViewBegin
    \/ ViewRead
    \/ ViewEnd

Spec == Init /\ [][Next]_vars

SpecAnySize == InitAnySize /\ [][Next]_vars

\* ------------------------------------------------------ model sanity
\* Every pressure is a whole multiple of 2^(MaxSteps - steps): Half is exact.
Exact ==
    built => \A i \in 0..(N - 1) :
        /\ cells.cur[i] % Pow2(MaxSteps - steps) = 0
        /\ cells.prev[i] % Pow2(MaxSteps - steps) = 0

\* ------------------------------------------------------------- claims
AllZero == [prev |-> Zeros(N), cur |-> Zeros(N)]

Stepped == built /\ last.op = "update_pressures"

Injected == built /\ last.op = "add_pressure"

\* C1: after every update_pressures, whatever was injected before it, both
\* boundary cells of cur are 0.0.
C1_BoundaryZero ==
    Stepped => cells.cur[0] = 0 /\ cells.cur[N - 1] = 0

\* A second or later step has just cleared an injected cur[0].
C1_Witness ==
    /\ Stepped
    /\ steps >= 2
    /\ old.cur[0] # 0
    /\ cells.cur[0] = 0

\* C2: one update_pressures sets every interior cell i to
\* 2*cur[i] - prev[i] + 0.5*(cur[i+1] - 2*cur[i] + cur[i-1]) of the arrays held
\* before the call (stated doubled, so that 0.5 does not occur); from
\* cur = [1,0,0,0,0], prev = 0 it gives cur = [0, 0.5, 0, 0, 0].
C2_Stencil ==
    Stepped =>
        /\ \A i \in 1..(N - 2) :
              2 * cells.cur[i] =
                 4 * old.cur[i] - 2 * old.prev[i]
                 + (old.cur[i + 1] - 2 * old.cur[i] + old.cur[i - 1])
        /\ (N = 5 /\ old.prev = Zeros(5) /\ old.cur = [Zeros(5) EXCEPT ![0] = Scale])
              => 2 * cells.cur[1] = Scale /\ \A i \in {0, 2, 3, 4} : cells.cur[i] = 0

\* The step from the unit impulse cur = [1,0,0,0,0] has given cur[1] = 0.5.
C2_Witness ==
    /\ Stepped
    /\ N = 5
    /\ old.prev = Zeros(5)
    /\ old.cur = [Zeros(5) EXCEPT ![0] = Scale]
    /\ 2 * cells.cur[1] = Scale

\* C3: after update_pressures, prev is, at every index, the cur held before
\* the call.
C3_Rotation ==
    Stepped => \A i \in 0..(N - 1) : cells.prev[i] = old.cur[i]

\* A step has carried an injected cur[0] into prev[0] and dropped another prev.
C3_Witness ==
    /\ Stepped
    /\ old.cur[0] # 0
    /\ cells.prev[0] = old.cur[0]
    /\ old.prev # old.cur
    /\ old.prev # Zeros(N)

\* C4: add_pressure(amount) adds amount to cur[0], leaves every other cell of
\* cur and all of prev as they were, and does not fail.
C4_InjectFrame ==
    Injected =>
        /\ ~panicked
        /\ cells.cur[0] = old.cur[0] + last.pressure
        /\ \A i \in 1..(N - 1) : cells.cur[i] = old.cur[i]
        /\ cells.prev = old.prev

\* A second injection with no step in between has added to the first.
C4_Witness ==
    /\ Injected
    /\ old.cur[0] # 0
    /\ cells.cur[0] = old.cur[0] + last.pressure
    /\ cells.cur[0] # last.pressure

\* C5: a chamber just constructed, and a chamber just reset after any
\* history, has prev and cur all zero.
C5_ZeroAfterNewOrReset ==
    (built /\ last.op \in {"new", "reset"}) => cells = AllZero

\* A reset has dropped a chamber whose prev and cur both held pressure.
C5_Witness ==
    /\ built
    /\ last.op = "reset"
    /\ old.cur # Zeros(N)
    /\ old.prev # Zeros(N)
    /\ cells = AllZero

\* C6: a chamber of size N < 3 is never constructed, and no operation fails.
C6_SmallSizeRejected ==
    /\ built => N >= 3
    /\ ~panicked

\* C9: while view reads cur cell by cell, what it has read so far is the cur of
\* one generation: the frame it completes is one complete cur.
C9_ViewOneGeneration ==
    viewing => \A j \in 1..Len(frame) : frame[j] = cells.cur[j - 1]

\* A view has read a complete cur that holds a wave.
C9_Witness ==
    /\ viewing
    /\ Len(frame) = N
    /\ steps >= 1
    /\ frame[2] # 0

\* C10: k update_pressures calls after the all-zero chamber, every cell of cur
\* beyond index k is still 0.0.
C10_FinitePropagation ==
    built => \A i \in 0..(N - 1) : i > steps => cells.cur[i] = 0

\* After two steps the wave has reached cell 2 and no cell beyond it.
C10_Witness ==
    /\ built
    /\ steps = 2
    /\ N >= 5
    /\ cells.cur[2] # 0
    /\ \A i \in 3..(N - 1) : cells.cur[i] = 0

====
